---- MODULE Spec2Model ----
(***************************************************************************)
(* Model of api/generate.js: the serverless handler(req, res) that proxies *)
(* generateText / generateImage / describeImage requests to Vertex AI.     *)
(*                                                                         *)
(* One invocation of the handler is a walk of pc through the statements of *)
(* the function.  The request, the process environment and the provider's  *)
(* answer are the inputs; the res object (headers, status, body) and the   *)
(* exception that leaves the handler, if any, are the outputs.             *)
(*                                                                         *)
(* Spec is one invocation.  SpecInvocations lets the same request be      *)
(* handled again under another environment, to compare the two answers.   *)
(***************************************************************************)
EXTENDS Naturals, Sequences, FiniteSets, TLC

\* ------------------------------------------------------------ JS values
\* JavaScript values are tagged records, so that undefined, null, numbers,
\* strings and objects stay distinct.
Undefined == [t |-> "undefined"]
Null      == [t |-> "null"]
Num(n)    == [t |-> "number", n |-> n]
Str(s)    == [t |-> "string", s |-> s]
Obj(f)    == [t |-> "object", f |-> f]

\* ToBoolean for the values the handler tests: undefined, null and "" are
\* falsy, every non-empty string and every object is truthy.
Truthy(v) ==
    CASE v.t = "undefined" -> FALSE
      [] v.t = "null"      -> FALSE
      [] v.t = "string"    -> v.s # ""
      [] v.t = "number"    -> v.n # 0
      [] OTHER             -> TRUE

\* v.name: a TypeError on undefined and null, undefined on a primitive or on
\* an object without the property.
PropThrows(v) == v.t \in {"undefined", "null"}
GetProp(v, name) ==
    IF v.t = "object" /\ name \in DOMAIN v.f THEN v.f[name] ELSE Undefined

\* ------------------------------------------------------------ bounds
\* Longest parts list of the provider's first candidate.
MaxParts == 2

\* ------------------------------------------------------------ inputs
Methods == {"OPTIONS", "POST", "GET", "DELETE"}

\* process.env.GOOGLE_PROJECT_ID: unset, empty, or a project id.
ProjectIds == {Undefined, Str(""), Str("proj-a"), Str("proj-b")}

\* process.env.GOOGLE_SERVICE_ACCOUNT_KEY: unset, empty, or a text.
KeyTextA == "{\"private_key\":\"pk-a\",\"client_email\":\"a@x.iam\"}"
KeyTextB == "{\"private_key\":\"pk-b\",\"client_email\":\"b@x.iam\"}"
ServiceAccountKeyList ==
    <<Str(KeyTextA), Str(KeyTextB), Str("{}"), Str("123"), Str("null"),
      Str("not-json"), Str(""), Undefined>>
ServiceAccountKeys ==
    {ServiceAccountKeyList[i] : i \in 1..Len(ServiceAccountKeyList)}

Environments ==
    {[GOOGLE_PROJECT_ID |-> p, GOOGLE_SERVICE_ACCOUNT_KEY |-> ServiceAccountKeyList[i]] :
        i \in 1..Len(ServiceAccountKeyList), p \in ProjectIds}

\* req.body: undefined (no body was parsed) or an object whose step and
\* payload may each be missing.
RecognizedSteps == {"generateText", "generateImage", "describeImage"}
StepValues == {Undefined, Str("bogus")} \cup {Str(s) : s \in RecognizedSteps}
PayloadObject ==
    Obj([systemPrompt |-> Str("S"), userQuery |-> Str("Q"),
         prompt |-> Str("P"), base64Data |-> Str("QkFTRTY0")])
PayloadValues == {Undefined, PayloadObject}
Bodies == {Undefined} \cup
          {Obj([step |-> s, payload |-> p]) : s \in StepValues, p \in PayloadValues}

\* The provider's answer to generateContent: a rejection carrying an Error,
\* or a response whose candidates list is empty or holds one candidate with
\* up to MaxParts parts.
TextPart   == Obj([text |-> Str("hello")])
InlinePart == Obj([inlineData |-> Obj([mimeType |-> Str("image/png"),
                                        data |-> Str("aW1hZ2U=")])])
BarePart   == Obj([thought |-> Str("t")])
Parts      == {TextPart, InlinePart, BarePart}
PartLists  == UNION {[1..n -> Parts] : n \in 0..MaxParts}
ProviderErrors == {"fetch failed", "429 Quota exceeded"}
Outcomes ==
    {[kind |-> "reject", message |-> m] : m \in ProviderErrors}
    \cup {[kind |-> "resolve", candidates |-> <<>>]}
    \cup {[kind |-> "resolve", candidates |-> <<pl>>] : pl \in PartLists}
NotCalled == [kind |-> "none"]

\* ------------------------------------------------------------ state
VARIABLES
    method,       \* req.method
    env,          \* process.env
    body,         \* req.body
    pc,           \* position in handler
    headers,      \* res headers set so far: a set of <<name, value>>
    sent,         \* number of responses sent through res
    statusCode,   \* res.status(...) of the response sent
    resBody,      \* what res.end() / res.json(...) wrote
    sentHeaders,  \* the headers the response went out with
    thrown,       \* the exception that left handler, or Undefined
    privateKey,   \* let privateKey
    clientEmail,  \* let clientEmail
    step,         \* const step
    payload,      \* const payload
    calls,        \* the generateContent calls made, in order
    outcome,      \* how the awaited generateContent call settled
    trace,        \* the statements run so far, in order
    prev          \* the invocation that finished before this one, if any

vars == <<method, env, body, pc, headers, sent, statusCode, resBody,
          sentHeaders, thrown, privateKey, clientEmail, step, payload,
          calls, outcome, trace, prev>>

\* res before anything is written: Node's ServerResponse starts at status 200.
DefaultStatus == 200
NoBody == [kind |-> "none"]

Fresh ==
    /\ pc = "cors"
    /\ headers = {}
    /\ sent = 0
    /\ statusCode = DefaultStatus
    /\ resBody = NoBody
    /\ sentHeaders = {}
    /\ thrown = Undefined
    /\ privateKey = Undefined
    /\ clientEmail = Undefined
    /\ step = Undefined
    /\ payload = Undefined
    /\ calls = <<>>
    /\ outcome = NotCalled
    /\ trace = <<>>

NoPrev == [kind |-> "none"]

Init ==
    /\ method \in Methods
    /\ \E i \in 1..Len(ServiceAccountKeyList) : \E p \in ProjectIds :
          env = [GOOGLE_PROJECT_ID |-> p,
                 GOOGLE_SERVICE_ACCOUNT_KEY |-> ServiceAccountKeyList[i]]
    /\ body \in Bodies
    /\ Fresh
    /\ prev = NoPrev

\* ------------------------------------------------------------ res
\* res.setHeader(name, value): the last value set for a name wins.
SetHeader(h, name, value) == {p \in h : p[1] # name} \cup {<<name, value>>}

\* Variant: the Allow-Headers line is missing.
CorsHeadersOnWithoutAllowHeaders(h) ==
    SetHeader(SetHeader(h,
        "Access-Control-Allow-Origin", "*"),
        "Access-Control-Allow-Methods", "POST, OPTIONS")

CorsHeadersOn(h) ==
    SetHeader(SetHeader(SetHeader(h,
        "Access-Control-Allow-Origin", "*"),
        "Access-Control-Allow-Methods", "POST, OPTIONS"),
        "Access-Control-Allow-Headers", "Content-Type")

\* res.json(obj) writes JSON.stringify(obj), which omits the properties
\* whose value is undefined.  obj is a set of <<name, value>>.
JSONStringify(obj) == {p \in obj : p[2].t # "undefined"}
JsonBody(obj) == [kind |-> "json", members |-> JSONStringify(obj)]
\* res.end() writes no body.
EmptyBody == [kind |-> "empty"]

ErrorEnvelope(message) == JsonBody({<<"error", Str(message)>>})

\* Variant: the catch block passes the message on without the prefix.
ApiErrorEnvelopeBare(message) == ErrorEnvelope(message)
\* Variant: the catch block names the project the call was made for.
ApiErrorEnvelopeWithProject(message) ==
    ErrorEnvelope("API Error: " \o message \o " (project "
                  \o env.GOOGLE_PROJECT_ID.s \o ")")

\* The catch block of handler: `API Error: ${error.message}`.
ApiErrorEnvelope(message) == ErrorEnvelope("API Error: " \o message)

\* return res.status(code).end() / .json(obj)
Send(code, b) ==
    /\ sent' = sent + 1
    /\ statusCode' = code
    /\ resBody' = b
    /\ sentHeaders' = headers
    /\ pc' = "done"

\* ------------------------------------------------------------ helpers
\* Variant: no pre-flight branch.
MethodCaseWithoutPreflight(m) ==
    IF m # "POST" THEN "notAllowed" ELSE "post"

MethodCase(m) ==
    IF m = "OPTIONS" THEN "preflight"
    ELSE IF m # "POST" THEN "notAllowed"
    ELSE "post"

\* Variant: && in place of ||.
CredentialsMissingBoth(e) ==
    ~Truthy(e.GOOGLE_PROJECT_ID) /\ ~Truthy(e.GOOGLE_SERVICE_ACCOUNT_KEY)

CredentialsMissing(e) ==
    ~Truthy(e.GOOGLE_PROJECT_ID) \/ ~Truthy(e.GOOGLE_SERVICE_ACCOUNT_KEY)

\* JSON.parse on the texts the environment may hold: a SyntaxError on a text
\* that is not JSON, otherwise the value the text denotes.
JSONParse(text) ==
    CASE text = "null" -> [threw |-> FALSE, value |-> Null]
      [] text = "123"  -> [threw |-> FALSE, value |-> Num(123)]
      [] text = "{}"   -> [threw |-> FALSE, value |-> Obj(<<>>)]
      [] text = KeyTextA ->
            [threw |-> FALSE,
             value |-> Obj([private_key |-> Str("pk-a"),
                            client_email |-> Str("a@x.iam")])]
      [] text = KeyTextB ->
            [threw |-> FALSE,
             value |-> Obj([private_key |-> Str("pk-b"),
                            client_email |-> Str("b@x.iam")])]
      [] OTHER -> [threw |-> TRUE, value |-> Undefined]

\* Variant: the catch block swallows the error and goes on.
ReadKeyLenient(keyText) ==
    LET r == JSONParse(keyText) IN
    [threw |-> FALSE,
     private_key |-> GetProp(r.value, "private_key"),
     client_email |-> GetProp(r.value, "client_email")]

\* The try block that reads the key: it throws when JSON.parse throws and
\* when keyData is null (keyData.private_key on null is a TypeError).
ReadKey(keyText) ==
    LET r == JSONParse(keyText) IN
    IF r.threw \/ PropThrows(r.value)
    THEN [threw |-> TRUE, private_key |-> Undefined, client_email |-> Undefined]
    ELSE [threw |-> FALSE,
          private_key |-> GetProp(r.value, "private_key"),
          client_email |-> GetProp(r.value, "client_email")]

\* Variant: a missing step is taken for generateText.
StepCaseDefaultingToText(s) ==
    IF s.t = "string" /\ s.s \in RecognizedSteps THEN s.s
    ELSE IF s.t = "undefined" THEN "generateText"
    ELSE "default"

\* switch (step): case labels compare with ===.
StepCase(s) ==
    IF s.t = "string" /\ s.s \in RecognizedSteps THEN s.s ELSE "default"

\* Messages of the TypeErrors the engine raises (V8 wording).
DestructureMessage(c) ==
    "Cannot destructure property '"
    \o (IF c = "generateImage" THEN "prompt" ELSE "systemPrompt")
    \o "' of 'payload' as it is undefined."
ReadOfUndefinedMessage(prop) ==
    "Cannot read properties of undefined (reading '" \o prop \o "')"

TextModel  == "gemini-2.5-flash-preview-09-2025"
ImageModel == "imagen-3.0-generate-002"

\* The generateContent request each case builds from payload.
Request(c, p) ==
    CASE c = "generateText" ->
           [model |-> TextModel,
            contents |-> <<[role |-> "user",
                            parts |-> <<Obj([text |-> GetProp(p, "userQuery")])>>]>>,
            systemInstruction |-> <<Obj([text |-> GetProp(p, "systemPrompt")])>>,
            responseModalities |-> <<>>]
      [] c = "generateImage" ->
           [model |-> ImageModel,
            contents |-> <<[role |-> "user",
                            parts |-> <<Obj([text |-> GetProp(p, "prompt")])>>]>>,
            systemInstruction |-> <<>>,
            responseModalities |-> <<"IMAGE">>]
      [] c = "describeImage" ->
           [model |-> TextModel,
            contents |-> <<[role |-> "user",
                            parts |-> <<Obj([text |-> GetProp(p, "systemPrompt")]),
                                        Obj([inlineData |->
                                              Obj([mimeType |-> Str("image/png"),
                                                   data |-> GetProp(p, "base64Data")])])>>]>>,
            systemInstruction |-> <<>>,
            responseModalities |-> <<>>]

\* parts.find(p => p.inlineData): the first part with a truthy inlineData,
\* undefined when there is none.
FindInlinePart(parts) ==
    LET hits == {i \in 1..Len(parts) : Truthy(GetProp(parts[i], "inlineData"))} IN
    IF hits = {} THEN Undefined
    ELSE parts[CHOOSE i \in hits : \A j \in hits : i <= j]

\* resp.response.candidates[0].content.parts[0].text
FirstText(candidates) ==
    IF Len(candidates) = 0
    THEN [threw |-> TRUE, message |-> ReadOfUndefinedMessage("content"),
          value |-> Undefined]
    ELSE IF Len(candidates[1]) = 0
    THEN [threw |-> TRUE, message |-> ReadOfUndefinedMessage("text"),
          value |-> Undefined]
    ELSE [threw |-> FALSE, message |-> "",
          value |-> GetProp(candidates[1][1], "text")]

\* The generateImage case after the await.
FirstImage(candidates) ==
    IF Len(candidates) = 0
    THEN [threw |-> TRUE, message |-> ReadOfUndefinedMessage("content"),
          value |-> Undefined]
    ELSE LET imagePart == FindInlinePart(candidates[1]) IN
         IF ~Truthy(imagePart)
         THEN [threw |-> TRUE, message |-> "No image data returned from Imagen.",
               value |-> Undefined]
         ELSE [threw |-> FALSE, message |-> "",
               value |-> GetProp(GetProp(imagePart, "inlineData"), "data")]

\* What the case does once the awaited call has settled with outcome o: the
\* error it throws into the catch block, or the object it passes to res.json.
AfterAwait(c, o) ==
    IF o.kind = "reject"
    THEN [threw |-> TRUE, message |-> o.message, json |-> {}]
    ELSE LET r == IF c = "generateImage" THEN FirstImage(o.candidates)
                  ELSE FirstText(o.candidates) IN
         IF r.threw THEN [threw |-> TRUE, message |-> r.message, json |-> {}]
         ELSE [threw |-> FALSE, message |-> "",
               json |-> {<<IF c = "generateImage" THEN "base64Image" ELSE "text",
                           r.value>>}]

\* ------------------------------------------------------------ handler
Ran(stmt) == trace' = Append(trace, stmt)

\* Lines 13-15: the three res.setHeader calls.
SetCorsHeaders ==
    /\ pc = "cors"
    /\ headers' = CorsHeadersOn(headers)
    /\ pc' = "method"
    /\ Ran("cors")
    /\ UNCHANGED <<method, env, body, sent, statusCode, resBody, sentHeaders,
                   thrown, privateKey, clientEmail, step, payload, calls,
                   outcome, prev>>

\* Lines 18-24: OPTIONS is answered 200 with no body, every other method
\* but POST 405.
MethodGate ==
    /\ pc = "method"
    /\ CASE MethodCase(method) = "preflight" ->
              Send(200, EmptyBody) /\ Ran("send")
         [] MethodCase(method) = "notAllowed" ->
              Send(405, ErrorEnvelope("Method Not Allowed")) /\ Ran("send")
         [] OTHER ->
              /\ pc' = "credentials"
              /\ Ran("post")
              /\ UNCHANGED <<sent, statusCode, resBody, sentHeaders>>
    /\ UNCHANGED <<method, env, body, headers, thrown, privateKey,
                   clientEmail, step, payload, calls, outcome, prev>>

\* Lines 28-33: both environment values must be truthy.
ReadCredentials ==
    /\ pc = "credentials"
    /\ IF CredentialsMissing(env)
       THEN /\ Send(500, ErrorEnvelope(
                   "Server configuration error. Missing API credentials."))
            /\ Ran("send")
       ELSE /\ pc' = "parseKey"
            /\ Ran("credentials")
            /\ UNCHANGED <<sent, statusCode, resBody, sentHeaders>>
    /\ UNCHANGED <<method, env, body, headers, thrown, privateKey,
                   clientEmail, step, payload, calls, outcome, prev>>

\* Lines 35-44: the try block around JSON.parse and its catch.
ParseKey ==
    /\ pc = "parseKey"
    /\ LET k == ReadKey(env.GOOGLE_SERVICE_ACCOUNT_KEY.s) IN
       IF k.threw
       THEN /\ Send(500, ErrorEnvelope(
                   "Server configuration error. Invalid service account key format."))
            /\ Ran("send")
            /\ UNCHANGED <<privateKey, clientEmail>>
       ELSE /\ privateKey' = k.private_key
            /\ clientEmail' = k.client_email
            /\ pc' = "readBody"
            /\ Ran("keyParsed")
            /\ UNCHANGED <<sent, statusCode, resBody, sentHeaders>>
    /\ UNCHANGED <<method, env, body, headers, thrown, step, payload, calls,
                   outcome, prev>>

\* Lines 46-56: new VertexAI(...) (the constructor stores its options; it
\* does not throw when project is given), then the destructuring of
\* req.body, which is outside every try block: on an undefined body the
\* TypeError leaves handler.
ReadBody ==
    /\ pc = "readBody"
    /\ IF PropThrows(body)
       THEN /\ thrown' = Str("Cannot destructure property 'step' of 'req.body' as it is undefined.")
            /\ pc' = "rejected"
            /\ Ran("throw")
            /\ UNCHANGED <<step, payload>>
       ELSE /\ step' = GetProp(body, "step")
            /\ payload' = GetProp(body, "payload")
            /\ pc' = "dispatch"
            /\ Ran("body")
            /\ UNCHANGED thrown
    /\ UNCHANGED <<method, env, body, headers, sent, statusCode, resBody,
                   sentHeaders, privateKey, clientEmail, calls, outcome, prev>>

\* Lines 58-127 up to the await: the switch, the destructuring of payload
\* inside the case (a TypeError there lands in the catch block), and the
\* generateContent call.
Dispatch ==
    /\ pc = "dispatch"
    /\ LET c == StepCase(step) IN
       IF c = "default"
       THEN /\ Send(400, ErrorEnvelope("Invalid step provided"))
            /\ Ran("send")
            /\ UNCHANGED calls
       ELSE IF PropThrows(payload)
       THEN /\ Send(500, ApiErrorEnvelope(DestructureMessage(c)))
            /\ trace' = trace \o <<"step", "catch", "send">>
            /\ UNCHANGED calls
       ELSE /\ calls' = Append(calls, Request(c, payload))
            /\ pc' = "await"
            /\ trace' = trace \o <<"step", "call">>
            /\ UNCHANGED <<sent, statusCode, resBody, sentHeaders>>
    /\ UNCHANGED <<method, env, body, headers, thrown, privateKey,
                   clientEmail, step, payload, outcome, prev>>

\* The awaited call settles and the case runs to its return, or into the
\* catch block (lines 128-131).
ProviderSettles ==
    /\ pc = "await"
    /\ \E o \in Outcomes :
         /\ outcome' = o
         /\ LET r == AfterAwait(StepCase(step), o) IN
            IF r.threw
            THEN /\ Send(500, ApiErrorEnvelope(r.message))
                 /\ trace' = trace \o <<"settled", "catch", "send">>
            ELSE /\ Send(200, JsonBody(r.json))
                 /\ trace' = trace \o <<"settled", "send">>
    /\ UNCHANGED <<method, env, body, headers, thrown, privateKey,
                   clientEmail, step, payload, calls, prev>>

Next ==
    \/ SetCorsHeaders
    \/ MethodGate
    \/ ReadCredentials
    \/ ParseKey
    \/ ReadBody
    \/ Dispatch
    \/ ProviderSettles

Spec == Init /\ [][Next]_vars

\* ------------------------------------------------------------ platform
\* The platform calls handler once per inbound request; nothing of one
\* invocation is kept for the next (every local and res are per call).  A
\* client that repeats its request gets a new invocation with the same
\* method and body, while the environment may have been reconfigured in
\* between.  prev remembers what the finished invocation was given and what
\* it answered; the request is repeated once, which gives every pair of
\* invocations of one request.
Invoke ==
    /\ pc \in {"done", "rejected"}
    /\ prev = NoPrev
    /\ env' \in Environments
    /\ UNCHANGED <<method, body>>
    /\ prev' = [kind |-> "finished", method |-> method, body |-> body,
                env |-> env, outcome |-> outcome,
                sent |-> sent, thrown |-> thrown,
                statusCode |-> statusCode, resBody |-> resBody]
    /\ pc' = "cors"
    /\ headers' = {}
    /\ sent' = 0
    /\ statusCode' = DefaultStatus
    /\ resBody' = NoBody
    /\ sentHeaders' = {}
    /\ thrown' = Undefined
    /\ privateKey' = Undefined
    /\ clientEmail' = Undefined
    /\ step' = Undefined
    /\ payload' = Undefined
    /\ calls' = <<>>
    /\ outcome' = NotCalled
    /\ trace' = <<>>

NextInvocations == Next \/ Invoke

SpecInvocations == Init /\ [][NextInvocations]_vars

\* ------------------------------------------------------------ properties
HasRun(stmt) == \E i \in 1..Len(trace) : trace[i] = stmt
Finished == pc \in {"done", "rejected"}
Responded == sent >= 1

\* The body is a JSON object with exactly the members named, all strings.
HasShape(b, names) ==
    /\ b.kind = "json"
    /\ {p[1] : p \in b.members} = names
    /\ Cardinality(b.members) = Cardinality(names)
    /\ \A p \in b.members : p[2].t = "string"
IsError(b, message) ==
    b.kind = "json" /\ b.members = {<<"error", Str(message)>>}

Unset(v) == v = Undefined \/ v = Str("")
StepIs(name) == body.t = "object" /\ body.f.step = Str(name)
StepIsOneOfTheThree ==
    StepIs("generateText") \/ StepIs("generateImage") \/ StepIs("describeImage")

\* C1: every invocation ends with exactly one response sent through res and
\* no exception leaving handler; a failure is answered with {error: ...}.
C1_ExactlyOneEnvelope ==
    /\ thrown = Undefined
    /\ pc # "rejected"
    /\ sent <= 1
    /\ (Finished => sent = 1)
    /\ (sent = 1 /\ statusCode # 200 => HasShape(resBody, {"error"}))

ExtractionMessages ==
    {"Cannot read properties of undefined (reading 'content')",
     "Cannot read properties of undefined (reading 'text')",
     "No image data returned from Imagen."}
Is500ApiError(message) ==
    statusCode = 500 /\ IsError(resBody, "API Error: " \o message)
NoInlineData(parts) ==
    \A i \in 1..Len(parts) : "inlineData" \notin DOMAIN parts[i].f
\* C2: once the provider was called, a rejection or a response the result
\* cannot be extracted from is answered 500 {error: "API Error: " + message};
\* a generateImage response whose first candidate has no inline-data part
\* gives the message "No image data returned from Imagen.".
C2_ProviderErrorsAre500 ==
    (pc = "done" /\ outcome.kind # "none") =>
        /\ method = "POST" /\ StepIsOneOfTheThree /\ sent = 1
        /\ (outcome.kind = "reject" => Is500ApiError(outcome.message))
        /\ (outcome.kind = "resolve" /\ outcome.candidates = <<>>
              => \E m \in ExtractionMessages : Is500ApiError(m))
        /\ (outcome.kind = "resolve" /\ outcome.candidates # <<>>
              /\ ~StepIs("generateImage") /\ outcome.candidates[1] = <<>>
              => \E m \in ExtractionMessages : Is500ApiError(m))
        /\ (outcome.kind = "resolve" /\ outcome.candidates # <<>>
              /\ StepIs("generateImage") /\ NoInlineData(outcome.candidates[1])
              => Is500ApiError("No image data returned from Imagen."))
C2_Witness ==
    /\ pc = "done"
    /\ StepIs("generateImage")
    /\ outcome.kind = "resolve"
    /\ outcome.candidates = << <<TextPart>> >>
    /\ statusCode = 500

KeyWellFormed(k) == k \in {Str(KeyTextA), Str(KeyTextB)}
\* C3: a POST with the project id set and a key that is present but is not a
\* JSON object holding private_key and client_email is answered 500 "Invalid
\* service account key format" and the provider is never invoked.
C3_MalformedKeyRejected ==
    (/\ method = "POST"
     /\ ~Unset(env.GOOGLE_PROJECT_ID)
     /\ ~Unset(env.GOOGLE_SERVICE_ACCOUNT_KEY)
     /\ ~KeyWellFormed(env.GOOGLE_SERVICE_ACCOUNT_KEY)) =>
        /\ calls = <<>>
        /\ pc \in {"cors", "method", "credentials", "parseKey", "done"}
        /\ (pc = "done" =>
              /\ statusCode = 500
              /\ IsError(resBody,
                   "Server configuration error. Invalid service account key format."))

\* C4: a POST made while GOOGLE_PROJECT_ID or GOOGLE_SERVICE_ACCOUNT_KEY is
\* unset or empty is answered 500 "Missing API credentials", whatever the
\* body is, also when there is no body.
C4_MissingCredentials ==
    (/\ method = "POST"
     /\ (Unset(env.GOOGLE_PROJECT_ID) \/ Unset(env.GOOGLE_SERVICE_ACCOUNT_KEY))) =>
        /\ thrown = Undefined
        /\ calls = <<>>
        /\ pc \in {"cors", "method", "credentials", "done"}
        /\ (pc = "done" =>
              /\ sent = 1
              /\ statusCode = 500
              /\ IsError(resBody,
                   "Server configuration error. Missing API credentials."))
C4_Witness ==
    /\ pc = "done"
    /\ method = "POST"
    /\ env.GOOGLE_PROJECT_ID = Str("proj-a")
    /\ env.GOOGLE_SERVICE_ACCOUNT_KEY = Str("")
    /\ body = Undefined
    /\ statusCode = 500

\* C5: a 200 response to a POST is exactly {text: string} for generateText
\* and describeImage and exactly {base64Image: string} for generateImage, any
\* other response to a POST is exactly {error: string}, and no response
\* holds both text and base64Image.
C5_ShapeDeterminedByStep ==
    (Responded /\ method = "POST") =>
        /\ IF statusCode = 200
           THEN \/ /\ StepIs("generateText") \/ StepIs("describeImage")
                   /\ HasShape(resBody, {"text"})
                \/ /\ StepIs("generateImage")
                   /\ HasShape(resBody, {"base64Image"})
           ELSE HasShape(resBody, {"error"})
        /\ ~(resBody.kind = "json"
             /\ {"text", "base64Image"} \subseteq {p[1] : p \in resBody.members})

\* C6: with the credentials resolved, a POST whose step is none of the three
\* (a missing step included) is answered 400 "Invalid step provided",
\* whatever the payload, and the provider is never invoked.
C6_InvalidStep ==
    (/\ method = "POST"
     /\ HasRun("keyParsed")
     /\ body.t = "object"
     /\ ~StepIsOneOfTheThree) =>
        /\ thrown = Undefined
        /\ calls = <<>>
        /\ pc \in {"readBody", "dispatch", "done"}
        /\ (pc = "done" =>
              /\ sent = 1
              /\ statusCode = 400
              /\ IsError(resBody, "Invalid step provided"))
C6_Witness ==
    /\ pc = "done"
    /\ HasRun("keyParsed")
    /\ body = Obj([step |-> Undefined, payload |-> Undefined])
    /\ statusCode = 400

\* C7: a request whose method is not POST is answered by its method alone,
\* 200 with no body for OPTIONS and 405 "Method Not Allowed" otherwise,
\* whatever the environment and the body, and the provider is never invoked.
C7_MethodGateFirst ==
    (method # "POST") =>
        /\ thrown = Undefined
        /\ calls = <<>>
        /\ pc \in {"cors", "method", "done"}
        /\ (pc = "done" =>
              /\ sent = 1
              /\ IF method = "OPTIONS"
                 THEN statusCode = 200 /\ resBody = EmptyBody
                 ELSE statusCode = 405 /\ IsError(resBody, "Method Not Allowed"))
C7_Witness ==
    /\ pc = "done"
    /\ method = "DELETE"
    /\ env.GOOGLE_SERVICE_ACCOUNT_KEY = Str("not-json")
    /\ body = Undefined
    /\ statusCode = 405

\* C8: every response goes out with the three Access-Control-Allow headers.
C8_CorsOnEveryResponse ==
    Responded =>
        {<<"Access-Control-Allow-Origin", "*">>,
         <<"Access-Control-Allow-Methods", "POST, OPTIONS">>,
         <<"Access-Control-Allow-Headers", "Content-Type">>} \subseteq sentHeaders
C8_Witness ==
    /\ Responded
    /\ statusCode = 500
    /\ outcome.kind = "reject"
    /\ Cardinality(sentHeaders) = 3

Before(a, b) ==
    \A j \in 1..Len(trace) : trace[j] = b =>
        \E i \in 1..(j - 1) : trace[i] = a
KeyParses(k) == k \in {Str("123"), Str("{}"), Str(KeyTextA), Str(KeyTextB)}
\* C9: generateContent is called at most once per invocation, and only after
\* the method was found to be POST, then both credentials present, then the
\* key parsed, then step recognized; once it is called the response is sent
\* only after the call has settled.
C9_CallOnceAfterChecks ==
    /\ Len(calls) <= 1
    /\ Cardinality({i \in 1..Len(trace) : trace[i] = "call"}) = Len(calls)
    /\ Before("post", "credentials")
    /\ Before("credentials", "keyParsed")
    /\ Before("keyParsed", "step")
    /\ Before("step", "call")
    /\ (calls # <<>> =>
          /\ method = "POST"
          /\ ~Unset(env.GOOGLE_PROJECT_ID)
          /\ KeyParses(env.GOOGLE_SERVICE_ACCOUNT_KEY)
          /\ StepIsOneOfTheThree)
    /\ (pc = "await" => sent = 0 /\ outcome = NotCalled)
    /\ (calls # <<>> /\ Responded =>
          /\ outcome.kind \in {"reject", "resolve"}
          /\ Before("settled", "send"))
C9_Witness ==
    /\ pc = "done"
    /\ Len(calls) = 1
    /\ outcome.kind = "reject"
    /\ sent = 1

Configured(e) ==
    /\ ~Unset(e.GOOGLE_PROJECT_ID)
    /\ KeyParses(e.GOOGLE_SERVICE_ACCOUNT_KEY)
\* C10: two invocations with the same method, body and provider outcome,
\* both under a present and parseable configuration, answer with the same
\* status and body, whatever the project id, client email and private key.
C10_CredentialsNotEchoed ==
    (/\ Finished
     /\ prev.kind = "finished"
     /\ prev.method = method
     /\ prev.body = body
     /\ prev.outcome = outcome
     /\ Configured(prev.env)
     /\ Configured(env)) =>
        /\ prev.sent = sent
        /\ prev.thrown = thrown
        /\ prev.statusCode = statusCode
        /\ prev.resBody = resBody
C10_Witness ==
    /\ pc = "done"
    /\ prev.kind = "finished"
    /\ prev.env = [GOOGLE_PROJECT_ID |-> Str("proj-a"),
                   GOOGLE_SERVICE_ACCOUNT_KEY |-> Str(KeyTextA)]
    /\ env = [GOOGLE_PROJECT_ID |-> Str("proj-b"),
              GOOGLE_SERVICE_ACCOUNT_KEY |-> Str(KeyTextB)]
    /\ prev.outcome = outcome
    /\ outcome.kind = "reject"
    /\ statusCode = 500
====
